---- MODULE Spec2Model ----
(***************************************************************************)
(* A model of the bluer-miflora client (src/lib/src/lib.rs): the bounded   *)
(* retry loops of try_connect / try_disconnect, the characteristic         *)
(* resolution, the write-then-verify mode switch and the paging protocol   *)
(* of read_historical_values, against a transport (bluer) whose every call *)
(* may succeed or fail and whose reads return arbitrary byte buffers.      *)
(*                                                                         *)
(* One client runs one operation at a time (the calls are a sequential     *)
(* chain of awaits); each transport call is one step.  The transport calls *)
(* of the running operation are recorded in `log`, those of the retry      *)
(* loops in counters (a retry loop may run for ever).                      *)
(***************************************************************************)
EXTENDS Integers, Sequences, FiniteSets, TLC

VARIABLES
    op,              \* the public operation in progress ("none" when idle)
    pc,              \* the await the operation is suspended at
    overflow_checks, \* the build: TRUE = debug (overflow panics), FALSE = release (wraps)
    retry,           \* try_connect / try_disconnect: the `retry: u8` argument
    count,           \* try_connect / try_disconnect: `let mut count` (u8)
    nQuery,          \* number of device.is_connected() calls of this operation
    nCall,           \* number of device.connect() / disconnect() calls of this operation
    firstReport,     \* the answer of the first is_connected() call
    lastReport,      \* the answer of the latest is_connected() call
    log,             \* the GATT calls of this operation, in order, with their outcome
    payload,         \* set_device_mode: the `payload` argument
    history_length,  \* read_historical_values: `history_length`
    epoch_time,      \* read_historical_values: `epoch_time` (u64, little-endian bytes)
    i,               \* read_historical_values: the loop index
    entries,         \* read_historical_values: `result`
    start,           \* read_epoch_time: `start` (ticks)
    finish,          \* read_epoch_time: the second now() (ticks)
    service_data,    \* try_from_device: what device.service_data() answered
    handle,          \* the run of a handle function, if one is in progress
    result           \* what the operation returned (or that it aborted)

vars == <<op, pc, overflow_checks, retry, count, nQuery, nCall, firstReport,
          lastReport, log, payload, history_length, epoch_time, i, entries,
          start, finish, service_data, handle, result>>

----------------------------------------------------------------------------
(* Bounds of the model *)

\* retry budgets 0..MaxSmallRetry are explored besides the two largest u8 values
MaxSmallRetry == 3
\* the call counters saturate here (a release-build retry loop can run for ever)
CallCap == 260
\* the largest history length the device announces
MaxEntries == 2
\* now() is drawn from 0..MaxClock ticks
MaxClock == 5
\* the epoch-time read takes 0..MaxLatency ticks
MaxLatency == 2
\* ticks per second of the modelled clock
TicksPerSecond == 2

----------------------------------------------------------------------------
(* Program constants *)

U8Max == 255
DEVICE_UUID_PREFIX == 65173
SERVICE_DATA_ID == 49
CHARACTERISTIC_MODE_ID == 50
CHARACTERISTIC_DATA_ID == 52
CHARACTERISTIC_FIRMWARE_ID == 55
SERVICE_HISTORY_ID == 58
CHARACTERISTIC_HISTORY_CTRL_ID == 61
CHARACTERISTIC_HISTORY_READ_ID == 59
CHARACTERISTIC_HISTORY_TIME_ID == 64

CMD_HISTORY_READ_INIT == <<160, 0, 0>>
CMD_HISTORY_READ_SUCCESS == <<162, 0, 0>>
CMD_HISTORY_READ_FAILED == <<163, 0, 0>>
CMD_REALTIME_DISABLE == <<192, 31>>
CMD_REALTIME_ENABLE == <<160, 31>>

----------------------------------------------------------------------------
(* Results: Result<T, Error>, or an abort (panic) of the call *)

NoResult ==
    [kind |-> "None", service_id |-> 0, characteristic_id |-> 0,
     retries |-> 0, cause |-> 0, value |-> <<>>]

Ok(v) == [NoResult EXCEPT !.kind = "Ok", !.value = v]

\* an index out of range, or an arithmetic overflow in a build that checks it
Panic == [NoResult EXCEPT !.kind = "Panic"]

ServiceNotFound(sid, c) ==
    [NoResult EXCEPT !.kind = "ServiceNotFound", !.service_id = sid, !.cause = c]

CharacteristicNotFound(sid, cid, c) ==
    [NoResult EXCEPT !.kind = "CharacteristicNotFound", !.service_id = sid,
                     !.characteristic_id = cid, !.cause = c]

UnableToRead(sid, cid, c) ==
    [NoResult EXCEPT !.kind = "UnableToRead", !.service_id = sid,
                     !.characteristic_id = cid, !.cause = c]

UnableToWrite(sid, cid, c) ==
    [NoResult EXCEPT !.kind = "UnableToWrite", !.service_id = sid,
                     !.characteristic_id = cid, !.cause = c]

InvalidWrittenValue(sid, cid) ==
    [NoResult EXCEPT !.kind = "InvalidWrittenValue", !.service_id = sid,
                     !.characteristic_id = cid]

CommandFailed(c) == [NoResult EXCEPT !.kind = "CommandFailed", !.cause = c]

\* TooManyRetries keeping the error of the first attempt
TooManyRetries_FirstCause(n, c) ==
    [NoResult EXCEPT !.kind = "TooManyRetries", !.retries = n, !.cause = 1]

TooManyRetries(n, c) ==
    [NoResult EXCEPT !.kind = "TooManyRetries", !.retries = n, !.cause = c]

\* src/src/lib.rs returns anyhow errors: the transport error that `?` passes
\* on, and the fixed message of an exhausted loop
AnyhowTransport(c) == [NoResult EXCEPT !.kind = "AnyhowTransport", !.cause = c]

AnyhowMessage == [NoResult EXCEPT !.kind = "AnyhowMessage"]

NoServiceData == [NoResult EXCEPT !.kind = "NoServiceData"]

DeviceNotSupported == [NoResult EXCEPT !.kind = "DeviceNotSupported"]

ErrorKinds ==
    {"ServiceNotFound", "CharacteristicNotFound", "UnableToRead", "UnableToWrite",
     "InvalidWrittenValue", "CommandFailed", "TooManyRetries", "NoServiceData",
     "DeviceNotSupported", "AnyhowTransport", "AnyhowMessage"}

IsErr(r) == r.kind \in ErrorKinds

\* no handle function is running: the operations are called one by one
NoHandle == [fn |-> "none", opened |-> FALSE, closed |-> FALSE]

----------------------------------------------------------------------------
(* The retry loops: try_connect, try_disconnect *)

RetryBudgets == (0 .. MaxSmallRetry) \cup {U8Max - 1, U8Max}

\* what device.is_connected() can answer: Ok(true), Ok(false), Err
IsConnectedAnswers == {"yes", "no", "err"}

\* a call counter, saturating at CallCap
Bump(n) == IF n < CallCap THEN n + 1 ELSE n

\* `count += 1` on a u8: the wrapped value, and whether it overflowed
IncrementU8(c) == [value |-> (c + 1) % (U8Max + 1), overflow |-> c = U8Max]

\* the test of the retry loops, one attempt short
RetriesExhausted_AtBudget(c, r) == c >= r

\* `if count > retry`
RetriesExhausted(c, r) == c > r

\* the early return of try_connect with its test negated
AlreadyConnected_Negated(ans) == ans = "no"

\* `if self.is_connected().await?` of try_connect
AlreadyConnected(ans) == ans = "yes"

\* `if !self.is_connected().await?` of try_disconnect
AlreadyDisconnected(ans) == ans = "no"

gattVars == <<log, payload, history_length, epoch_time, i, entries, start, finish,
              service_data, handle>>

Call_try_connect ==
    /\ pc = "idle"
    /\ \E r \in RetryBudgets : retry' = r
    /\ op' = "try_connect"
    /\ pc' = "is_connected"
    /\ count' = 0
    /\ UNCHANGED <<overflow_checks, nQuery, nCall, firstReport, lastReport, result>>
    /\ UNCHANGED gattVars

Call_try_disconnect ==
    /\ pc = "idle"
    /\ \E r \in RetryBudgets : retry' = r
    /\ op' = "try_disconnect"
    /\ pc' = "is_connected"
    /\ count' = 0
    /\ UNCHANGED <<overflow_checks, nQuery, nCall, firstReport, lastReport, result>>
    /\ UNCHANGED gattVars

\* the head of the loop without its `?`: a failed query counts as "go on"
LoopQuery_IgnoresError(ans, settled) ==
    /\ nQuery' = Bump(nQuery)
    /\ firstReport' = IF firstReport = "none" THEN ans ELSE firstReport
    /\ lastReport' = ans
    /\ IF settled
       THEN pc' = "done" /\ result' = Ok(<<>>)
       ELSE pc' = "call" /\ result' = result
    /\ UNCHANGED <<op, overflow_checks, retry, count, nCall>>
    /\ UNCHANGED gattVars

\* the head of the loop: is_connected(), `?`, and the early return
LoopQuery(ans, settled) ==
    /\ nQuery' = Bump(nQuery)
    /\ firstReport' = IF firstReport = "none" THEN ans ELSE firstReport
    /\ lastReport' = ans
    /\ IF ans = "err"
       THEN pc' = "done" /\ result' = CommandFailed(Bump(nQuery))
       ELSE IF settled
            THEN pc' = "done" /\ result' = Ok(<<>>)
            ELSE pc' = "call" /\ result' = result
    /\ UNCHANGED <<op, overflow_checks, retry, count, nCall>>
    /\ UNCHANGED gattVars

\* the match on device.connect() / device.disconnect()
LoopCall ==
    \E ok \in BOOLEAN :
        /\ nCall' = Bump(nCall)
        /\ IF ok
           THEN pc' = "done" /\ result' = Ok(<<>>) /\ count' = count
           ELSE LET inc == IncrementU8(count) IN
                IF inc.overflow /\ overflow_checks
                THEN pc' = "aborted" /\ result' = Panic /\ count' = count
                ELSE /\ count' = inc.value
                     /\ IF RetriesExhausted(inc.value, retry)
                        THEN /\ pc' = "done"
                             /\ result' = TooManyRetries(inc.value, Bump(nCall))
                        ELSE pc' = "is_connected" /\ result' = result
        /\ UNCHANGED <<op, overflow_checks, retry, nQuery, firstReport, lastReport>>
        /\ UNCHANGED gattVars

try_connect_is_connected ==
    /\ op = "try_connect" /\ pc = "is_connected"
    /\ \E ans \in IsConnectedAnswers : LoopQuery(ans, AlreadyConnected(ans))

try_connect_connect ==
    /\ op = "try_connect" /\ pc = "call"
    /\ LoopCall

try_disconnect_is_connected ==
    /\ op = "try_disconnect" /\ pc = "is_connected"
    /\ \E ans \in IsConnectedAnswers : LoopQuery(ans, AlreadyDisconnected(ans))

try_disconnect_disconnect ==
    /\ op = "try_disconnect" /\ pc = "call"
    /\ LoopCall

----------------------------------------------------------------------------
(* The retry loops of src/src/lib.rs, which count down:                     *)
(*   let mut count = retry; while count > 0 { ...; count -= 1; } Err(..)    *)

\* `while count > 0`
WhileCondition(c) == c > 0

\* where the loop goes from its head
WhileHead(c) == IF WhileCondition(c) THEN "is_connected" ELSE "done"

\* what the call has returned when the loop is at its head
WhileResult(c, r) == IF WhileCondition(c) THEN r ELSE AnyhowMessage

Call_try_connect_anyhow ==
    /\ pc = "idle"
    /\ \E r \in RetryBudgets :
        /\ retry' = r /\ count' = r
        /\ pc' = WhileHead(r) /\ result' = WhileResult(r, result)
    /\ op' = "try_connect_anyhow"
    /\ UNCHANGED <<overflow_checks, nQuery, nCall, firstReport, lastReport>>
    /\ UNCHANGED gattVars

Call_try_disconnect_anyhow ==
    /\ pc = "idle"
    /\ \E r \in RetryBudgets :
        /\ retry' = r /\ count' = r
        /\ pc' = WhileHead(r) /\ result' = WhileResult(r, result)
    /\ op' = "try_disconnect_anyhow"
    /\ UNCHANGED <<overflow_checks, nQuery, nCall, firstReport, lastReport>>
    /\ UNCHANGED gattVars

\* is_connected(), `?`, and the early return
WhileQuery(ans, settled) ==
    /\ nQuery' = Bump(nQuery)
    /\ firstReport' = IF firstReport = "none" THEN ans ELSE firstReport
    /\ lastReport' = ans
    /\ IF ans = "err"
       THEN pc' = "done" /\ result' = AnyhowTransport(Bump(nQuery))
       ELSE IF settled
            THEN pc' = "done" /\ result' = Ok(<<>>)
            ELSE pc' = "call" /\ result' = result
    /\ UNCHANGED <<op, overflow_checks, retry, count, nCall>>
    /\ UNCHANGED gattVars

\* the match on connect() / disconnect(), `count -= 1`, and the loop test
WhileCall ==
    \E ok \in BOOLEAN :
        /\ nCall' = Bump(nCall)
        /\ IF ok
           THEN pc' = "done" /\ result' = Ok(<<>>) /\ count' = count
           ELSE /\ count' = count - 1
                /\ pc' = WhileHead(count - 1)
                /\ result' = WhileResult(count - 1, result)
        /\ UNCHANGED <<op, overflow_checks, retry, nQuery, firstReport, lastReport>>
        /\ UNCHANGED gattVars

try_connect_anyhow_is_connected ==
    /\ op = "try_connect_anyhow" /\ pc = "is_connected"
    /\ \E ans \in IsConnectedAnswers : WhileQuery(ans, AlreadyConnected(ans))

try_connect_anyhow_connect ==
    /\ op = "try_connect_anyhow" /\ pc = "call"
    /\ WhileCall

try_disconnect_anyhow_is_connected ==
    /\ op = "try_disconnect_anyhow" /\ pc = "is_connected"
    /\ \E ans \in IsConnectedAnswers : WhileQuery(ans, AlreadyDisconnected(ans))

try_disconnect_anyhow_disconnect ==
    /\ op = "try_disconnect_anyhow" /\ pc = "call"
    /\ WhileCall

----------------------------------------------------------------------------
(* Bytes and fixed-width integers.  A u64 is its eight little-endian       *)
(* bytes, so that the arithmetic keeps its width.                           *)

\* u16::from_le_bytes([b0, b1])
U16FromLE(b0, b1) == b0 + 256 * b1

\* to_le_bytes with the two bytes exchanged
U16ToLE_BigEndian(n) == <<n \div 256, n % 256>>

\* u16::to_le_bytes(n)
U16ToLE(n) == <<n % 256, n \div 256>>

\* u16::MAX, the largest `index: u16`
U16Max == 65535

\* the w little-endian bytes of the natural number n
RECURSIVE NatToLE(_, _)
NatToLE(n, w) == IF w = 0 THEN <<>> ELSE <<n % 256>> \o NatToLE(n \div 256, w - 1)

\* `x as u64` of a u32 given by its four little-endian bytes
U32AsU64(b) == <<b[1], b[2], b[3], b[4], 0, 0, 0, 0>>

\* a - b on little-endian bytes of equal length: the wrapped difference and
\* whether it borrowed out of the top byte (a < b)
RECURSIVE SubLE(_, _, _)
SubLE(a, b, borrow) ==
    IF a = <<>>
    THEN [bytes |-> <<>>, overflow |-> borrow = 1]
    ELSE LET d == a[1] - b[1] - borrow
             rest == SubLE(Tail(a), Tail(b), IF d < 0 THEN 1 ELSE 0)
         IN [bytes |-> <<(d + 256) % 256>> \o rest.bytes, overflow |-> rest.overflow]

----------------------------------------------------------------------------
(* The GATT calls of the transport and what they can return *)

Entry(call, sid, cid, data, ok) ==
    [call |-> call, service_id |-> sid, characteristic_id |-> cid,
     data |-> data, ok |-> ok]

\* device.service(id) fails, service.characteristic(id) fails, or both succeed
ResolveOutcomes == {"ok", "no_service", "no_characteristic"}

\* what the history-read characteristic answers after the read-init command
LengthResponses ==
    {U16ToLE(n) : n \in 0 .. MaxEntries} \cup {<<>>, <<1>>, <<0, 0, 7>>, <<1, 0, 7>>}

\* what the epoch-time characteristic answers (the seconds since boot)
EpochResponses ==
    {<<0, 0, 0, 0>>, <<1, 0, 0, 0>>, <<255, 255, 255, 255>>, <<1, 0, 0, 0, 9>>, <<1, 0, 0>>}

\* what the history-read characteristic answers after an address command
EntryPayloads ==
    {<<10, 0, 0, 0, 200, 0, 0, 100, 0, 0, 0, 30, 144, 1, 0, 0>>,
     <<255, 255, 255, 255, 1, 1, 9, 1, 2, 3, 9, 55, 2, 3, 7, 7>>,
     <<1, 2, 3>>}

\* what the mode characteristic answers when read back
ModeEchoes == {CMD_REALTIME_ENABLE, CMD_REALTIME_DISABLE, <<160>>, <<160, 31, 0>>}

\* what the firmware characteristic answers
SystemResponses == {<<42, 0, 118, 49, 46, 48>>, <<42>>}

\* what the data characteristic answers
RealtimeResponses ==
    {<<100, 0, 0, 16, 0, 0, 0, 55, 144, 1, 0, 0, 0, 0, 0, 0>>, <<100, 0, 0, 16>>}

\* now(), in ticks
ClockValues == 0 .. MaxClock

----------------------------------------------------------------------------
(* Miflora::characteristic, char.read() and char.write_ext() as steps of   *)
(* the running operation                                                    *)

ResolveCalls(sid, cid, out) ==
    IF out = "no_service"
    THEN <<Entry("service", sid, 0, <<>>, FALSE)>>
    ELSE <<Entry("service", sid, 0, <<>>, TRUE),
           Entry("characteristic", sid, cid, <<>>, out = "ok")>>

\* a resolution that blames the characteristic whatever failed
ResolveError_AlwaysCharacteristic(sid, cid, out, c) == CharacteristicNotFound(sid, cid, c)

ResolveError(sid, cid, out, c) ==
    IF out = "no_service"
    THEN ServiceNotFound(sid, c)
    ELSE CharacteristicNotFound(sid, cid, c)

\* `self.characteristic(sid, cid).await?`
characteristic(sid, cid, next) ==
    \E out \in ResolveOutcomes :
        LET calls == ResolveCalls(sid, cid, out) IN
        /\ log' = log \o calls
        /\ IF out = "ok"
           THEN pc' = next /\ result' = result
           ELSE /\ pc' = "done"
                /\ result' = ResolveError(sid, cid, out, Len(log) + Len(calls))

\* `char.write_ext(bytes, &WRITE_OPTS).await.map_err(..)?` on the resolved
\* (sid, cid); err is what map_err makes of a failure
write_ext(sid, cid, bytes, next, err) ==
    \E ok \in BOOLEAN :
        /\ log' = Append(log, Entry("write", sid, cid, bytes, ok))
        /\ IF ok
           THEN pc' = next /\ result' = result
           ELSE pc' = "done" /\ result' = err

sessionIdle ==
    UNCHANGED <<overflow_checks, retry, count, nQuery, nCall, firstReport, lastReport,
                service_data, handle>>

----------------------------------------------------------------------------
(* read_epoch_time *)

\* `(now() + start) / 2.0` then `as u64`: the whole seconds of the midpoint
\* (the clock is exact in ticks; the rounding of as_secs_f64 is not modelled)
WallTime(t0, t1) == NatToLE((t0 + t1) \div (2 * TicksPerSecond), 8)

\* the map_err of the epoch-time read
read_epoch_time_read_error(c) ==
    UnableToWrite(SERVICE_HISTORY_ID, CHARACTERISTIC_HISTORY_TIME_ID, c)

\* `(wall_time as u64) - (epoch_offset as u64)`
EpochTime(t0, t1, data) == SubLE(WallTime(t0, t1), U32AsU64(data), 0)

Call_read_epoch_time ==
    /\ pc = "idle"
    /\ op' = "read_epoch_time"
    /\ pc' = "e_characteristic"
    /\ \E t0 \in ClockValues : start' = t0
    /\ UNCHANGED <<log, payload, history_length, epoch_time, i, entries, finish, result>>
    /\ sessionIdle

read_epoch_time_characteristic ==
    /\ pc = "e_characteristic"
    /\ characteristic(SERVICE_HISTORY_ID, CHARACTERISTIC_HISTORY_TIME_ID, "e_read")
    /\ UNCHANGED <<op, payload, history_length, epoch_time, i, entries, start, finish>>
    /\ sessionIdle

read_epoch_time_read ==
    /\ pc = "e_read"
    /\ \E ok \in BOOLEAN, data \in EpochResponses, t1 \in start .. (start + MaxLatency) :
        /\ log' = Append(log, Entry("read", SERVICE_HISTORY_ID,
                                    CHARACTERISTIC_HISTORY_TIME_ID,
                                    IF ok THEN data ELSE <<>>, ok))
        /\ IF ~ok
           THEN /\ pc' = "done"
                /\ result' = read_epoch_time_read_error(Len(log) + 1)
                /\ UNCHANGED <<epoch_time, finish>>
           ELSE /\ finish' = t1
                /\ IF Len(data) < 4
                   THEN pc' = "aborted" /\ result' = Panic /\ UNCHANGED epoch_time
                   ELSE LET e == EpochTime(start, t1, data) IN
                        IF e.overflow /\ overflow_checks
                        THEN pc' = "aborted" /\ result' = Panic /\ UNCHANGED epoch_time
                        ELSE /\ epoch_time' = e.bytes
                             /\ IF op = "read_epoch_time"
                                THEN pc' = "done" /\ result' = Ok(e.bytes)
                                ELSE pc' = "h_read_char" /\ result' = result
    /\ UNCHANGED <<op, payload, history_length, i, entries, start>>
    /\ sessionIdle

----------------------------------------------------------------------------
(* read_historical_values and clear_historical_entries *)

\* an entry that folds its own boot offset into the epoch it stores
HistoricalEntry_new_OwnEpoch(inner, epoch) ==
    [epoch_time |-> IF Len(inner) >= 4 THEN SubLE(epoch, U32AsU64(inner), 0).bytes ELSE epoch,
     inner |-> inner]

\* a + b + carry on little-endian bytes of one width; overflow = the carry out
RECURSIVE AddLE(_, _, _)
AddLE(a, b, carry) ==
    IF a = <<>>
    THEN [bytes |-> <<>>, overflow |-> carry = 1]
    ELSE LET d == a[1] + b[1] + carry
             rest == AddLE(Tail(a), Tail(b), d \div 256)
         IN [bytes |-> <<d % 256>> \o rest.bytes, overflow |-> rest.overflow]

\* HistoricalEntry::timestamp: `self.epoch_time + offset as u64`, the u64
\* that the sum leaves and whether the addition overflowed (a build with
\* overflow checks aborts there, the others wrap)
timestamp(entry) == AddLE(entry.epoch_time, U32AsU64(entry.inner), 0)

\* HistoricalEntry::new
HistoricalEntry_new(inner, epoch) == [epoch_time |-> epoch, inner |-> inner]

\* an address command built with the opcode of the read-success command
historical_entry_address_WrongOpcode(index) ==
    LET bytes == U16ToLE(index) IN <<162, bytes[1], bytes[2]>>

\* historical_entry_address
historical_entry_address(index) ==
    LET bytes == U16ToLE(index) IN <<161, bytes[1], bytes[2]>>

\* the epoch and the entries read whatever the announced length
HasHistory_Always(n) == n >= 0

\* `if history_length > 0`
HasHistory(n) == n > 0

\* the entry put in front of the result instead of behind it
Push_Front(v, e) == <<e>> \o v

\* `result.push(entry)`
Push(v, e) == Append(v, e)

\* the map_err of the two writes to the control characteristic
history_write_error(c) ==
    UnableToWrite(SERVICE_HISTORY_ID, CHARACTERISTIC_HISTORY_CTRL_ID, c)

\* a failed read that ends the call with the entries read so far
history_read_error_Partial(c) == Ok(entries)

\* the map_err of the reads of the history-read characteristic
history_read_error(c) ==
    UnableToRead(SERVICE_HISTORY_ID, CHARACTERISTIC_HISTORY_READ_ID, c)

\* the map_err of the write of clear_historical_entries
clear_write_error(c) ==
    UnableToRead(SERVICE_HISTORY_ID, CHARACTERISTIC_HISTORY_CTRL_ID, c)

\* `for i in 0..history_length`: the next step with index k
HistoryLoop(k, n) == IF k < n THEN "h_write_address" ELSE "h_return"

Call_read_historical_values ==
    /\ pc = "idle"
    /\ op' = "read_historical_values"
    /\ pc' = "h_ctrl_char"
    /\ UNCHANGED <<result>>
    /\ UNCHANGED gattVars
    /\ sessionIdle

read_historical_values_ctrl_char ==
    /\ pc = "h_ctrl_char"
    /\ characteristic(SERVICE_HISTORY_ID, CHARACTERISTIC_HISTORY_CTRL_ID, "h_write_init")
    /\ UNCHANGED <<op, payload, history_length, epoch_time, i, entries, start, finish>>
    /\ sessionIdle

read_historical_values_write_init ==
    /\ pc = "h_write_init"
    /\ write_ext(SERVICE_HISTORY_ID, CHARACTERISTIC_HISTORY_CTRL_ID,
                 CMD_HISTORY_READ_INIT, "h_char", history_write_error(Len(log) + 1))
    /\ UNCHANGED <<op, payload, history_length, epoch_time, i, entries, start, finish>>
    /\ sessionIdle

read_historical_values_char ==
    /\ pc = "h_char"
    /\ characteristic(SERVICE_HISTORY_ID, CHARACTERISTIC_HISTORY_READ_ID, "h_read_length")
    /\ UNCHANGED <<op, payload, history_length, epoch_time, i, entries, start, finish>>
    /\ sessionIdle

\* the read of the history length, its decoding, and the branch on it; with
\* entries to read, read_epoch_time is entered and takes its first now()
read_historical_values_read_length ==
    /\ pc = "h_read_length"
    /\ \E ok \in BOOLEAN, data \in LengthResponses, t0 \in ClockValues :
        /\ log' = Append(log, Entry("read", SERVICE_HISTORY_ID,
                                    CHARACTERISTIC_HISTORY_READ_ID,
                                    IF ok THEN data ELSE <<>>, ok))
        /\ IF ~ok
           THEN /\ pc' = "done" /\ result' = history_read_error(Len(log) + 1)
                /\ UNCHANGED <<history_length, start>>
           ELSE IF Len(data) < 2
                THEN /\ pc' = "aborted" /\ result' = Panic
                     /\ UNCHANGED <<history_length, start>>
                ELSE LET n == U16FromLE(data[1], data[2]) IN
                     /\ history_length' = n
                     /\ IF HasHistory(n)
                        THEN pc' = "e_characteristic" /\ start' = t0 /\ result' = result
                        ELSE pc' = "done" /\ result' = Ok(entries) /\ UNCHANGED start
    /\ UNCHANGED <<op, payload, epoch_time, i, entries, finish>>
    /\ sessionIdle

\* the second resolution of the history-read characteristic, and the loop head
read_historical_values_read_char ==
    /\ pc = "h_read_char"
    /\ characteristic(SERVICE_HISTORY_ID, CHARACTERISTIC_HISTORY_READ_ID,
                      HistoryLoop(0, history_length))
    /\ i' = 0
    /\ UNCHANGED <<op, payload, history_length, epoch_time, entries, start, finish>>
    /\ sessionIdle

read_historical_values_write_address ==
    /\ pc = "h_write_address"
    /\ write_ext(SERVICE_HISTORY_ID, CHARACTERISTIC_HISTORY_CTRL_ID,
                 historical_entry_address(i), "h_read_entry",
                 history_write_error(Len(log) + 1))
    /\ UNCHANGED <<op, payload, history_length, epoch_time, i, entries, start, finish>>
    /\ sessionIdle

read_historical_values_read_entry ==
    /\ pc = "h_read_entry"
    /\ \E ok \in BOOLEAN, data \in EntryPayloads :
        /\ log' = Append(log, Entry("read", SERVICE_HISTORY_ID,
                                    CHARACTERISTIC_HISTORY_READ_ID,
                                    IF ok THEN data ELSE <<>>, ok))
        /\ IF ~ok
           THEN /\ pc' = "done" /\ result' = history_read_error(Len(log) + 1)
                /\ UNCHANGED <<i, entries>>
           ELSE /\ entries' = Push(entries, HistoricalEntry_new(data, epoch_time))
                /\ i' = i + 1
                /\ pc' = HistoryLoop(i + 1, history_length)
                /\ result' = result
    /\ UNCHANGED <<op, payload, history_length, epoch_time, start, finish>>
    /\ sessionIdle

\* `Ok(result)` after the loop
read_historical_values_return ==
    /\ pc = "h_return"
    /\ pc' = "done"
    /\ result' = Ok(entries)
    /\ UNCHANGED <<op>>
    /\ UNCHANGED gattVars
    /\ sessionIdle

Call_clear_historical_entries ==
    /\ pc = "idle"
    /\ op' = "clear_historical_entries"
    /\ pc' = "c_ctrl_char"
    /\ UNCHANGED <<result>>
    /\ UNCHANGED gattVars
    /\ sessionIdle

clear_historical_entries_ctrl_char ==
    /\ pc = "c_ctrl_char"
    /\ characteristic(SERVICE_HISTORY_ID, CHARACTERISTIC_HISTORY_CTRL_ID, "c_write")
    /\ UNCHANGED <<op, payload, history_length, epoch_time, i, entries, start, finish>>
    /\ sessionIdle

clear_historical_entries_write ==
    /\ pc = "c_write"
    /\ write_ext(SERVICE_HISTORY_ID, CHARACTERISTIC_HISTORY_CTRL_ID,
                 CMD_HISTORY_READ_SUCCESS, "c_return", clear_write_error(Len(log) + 1))
    /\ UNCHANGED <<op, payload, history_length, epoch_time, i, entries, start, finish>>
    /\ sessionIdle

clear_historical_entries_return ==
    /\ pc = "c_return"
    /\ pc' = "done"
    /\ result' = Ok(<<>>)
    /\ UNCHANGED <<op>>
    /\ UNCHANGED gattVars
    /\ sessionIdle

----------------------------------------------------------------------------
(* set_device_mode (through set_realtime_data_mode), read_realtime_values  *)
(* and read_system                                                          *)

\* the payload set_realtime_data_mode hands to set_device_mode
\* the mode helper with its two commands exchanged
set_realtime_data_mode_Inverted(enabled) ==
    IF enabled THEN CMD_REALTIME_DISABLE ELSE CMD_REALTIME_ENABLE

set_realtime_data_mode(enabled) ==
    IF enabled THEN CMD_REALTIME_ENABLE ELSE CMD_REALTIME_DISABLE

\* an echo check that compares the command byte only
EchoMatches_FirstByte(data, written) == data[1] = written[1]

\* `data.eq(payload)`
EchoMatches(data, written) == data = written

\* the write failure of set_device_mode reported as a read failure
mode_write_error_AsRead(c) == UnableToRead(SERVICE_DATA_ID, CHARACTERISTIC_MODE_ID, c)

mode_write_error(c) == UnableToWrite(SERVICE_DATA_ID, CHARACTERISTIC_MODE_ID, c)

mode_read_error(c) == UnableToRead(SERVICE_DATA_ID, CHARACTERISTIC_MODE_ID, c)

\* the map_err of Miflora::read
read_error(sid, cid, c) == UnableToRead(sid, cid, c)

\* System::from and RealtimeEntry::from
System_from(inner) == [inner |-> inner]

RealtimeEntry_from(inner) == [inner |-> inner]

modeIdle == UNCHANGED <<history_length, epoch_time, i, entries, start, finish>>

\* the private helper, called on its own with either mode
Call_set_realtime_data_mode ==
    /\ pc = "idle"
    /\ op' = "set_realtime_data_mode"
    /\ pc' = "m_characteristic"
    /\ \E enabled \in BOOLEAN : payload' = set_realtime_data_mode(enabled)
    /\ UNCHANGED <<log, result>>
    /\ modeIdle
    /\ sessionIdle

\* read_realtime_values starts with set_realtime_data_mode(true)
Call_read_realtime_values ==
    /\ pc = "idle"
    /\ op' = "read_realtime_values"
    /\ pc' = "m_characteristic"
    /\ payload' = set_realtime_data_mode(TRUE)
    /\ UNCHANGED <<log, result>>
    /\ modeIdle
    /\ sessionIdle

set_device_mode_characteristic ==
    /\ pc = "m_characteristic"
    /\ characteristic(SERVICE_DATA_ID, CHARACTERISTIC_MODE_ID, "m_write")
    /\ UNCHANGED <<op, payload>>
    /\ modeIdle
    /\ sessionIdle

set_device_mode_write ==
    /\ pc = "m_write"
    /\ write_ext(SERVICE_DATA_ID, CHARACTERISTIC_MODE_ID, payload, "m_read",
                 mode_write_error(Len(log) + 1))
    /\ UNCHANGED <<op, payload>>
    /\ modeIdle
    /\ sessionIdle

\* the read-back and the comparison; read_realtime_values goes on to its read
set_device_mode_read ==
    /\ pc = "m_read"
    /\ \E ok \in BOOLEAN, data \in ModeEchoes :
        /\ log' = Append(log, Entry("read", SERVICE_DATA_ID, CHARACTERISTIC_MODE_ID,
                                    IF ok THEN data ELSE <<>>, ok))
        /\ IF ~ok
           THEN pc' = "done" /\ result' = mode_read_error(Len(log) + 1)
           ELSE IF ~EchoMatches(data, payload)
                THEN /\ pc' = "done"
                     /\ result' = InvalidWrittenValue(SERVICE_DATA_ID,
                                                      CHARACTERISTIC_MODE_ID)
                ELSE IF op = "read_realtime_values"
                     THEN pc' = "r_characteristic" /\ result' = result
                     ELSE pc' = "done" /\ result' = Ok(<<>>)
    /\ UNCHANGED <<op, payload>>
    /\ modeIdle
    /\ sessionIdle

read_realtime_values_characteristic ==
    /\ pc = "r_characteristic"
    /\ characteristic(SERVICE_DATA_ID, CHARACTERISTIC_DATA_ID, "r_read")
    /\ UNCHANGED <<op, payload>>
    /\ modeIdle
    /\ sessionIdle

read_realtime_values_read ==
    /\ pc = "r_read"
    /\ \E ok \in BOOLEAN, data \in RealtimeResponses :
        /\ log' = Append(log, Entry("read", SERVICE_DATA_ID, CHARACTERISTIC_DATA_ID,
                                    IF ok THEN data ELSE <<>>, ok))
        /\ pc' = "done"
        /\ result' = IF ok
                     THEN Ok(RealtimeEntry_from(data))
                     ELSE read_error(SERVICE_DATA_ID, CHARACTERISTIC_DATA_ID, Len(log) + 1)
    /\ UNCHANGED <<op, payload>>
    /\ modeIdle
    /\ sessionIdle

Call_read_system ==
    /\ pc = "idle"
    /\ op' = "read_system"
    /\ pc' = "s_characteristic"
    /\ UNCHANGED <<log, payload, result>>
    /\ modeIdle
    /\ sessionIdle

read_system_characteristic ==
    /\ pc = "s_characteristic"
    /\ characteristic(SERVICE_DATA_ID, CHARACTERISTIC_FIRMWARE_ID, "s_read")
    /\ UNCHANGED <<op, payload>>
    /\ modeIdle
    /\ sessionIdle

read_system_read ==
    /\ pc = "s_read"
    /\ \E ok \in BOOLEAN, data \in SystemResponses :
        /\ log' = Append(log, Entry("read", SERVICE_DATA_ID, CHARACTERISTIC_FIRMWARE_ID,
                                    IF ok THEN data ELSE <<>>, ok))
        /\ pc' = "done"
        /\ result' = IF ok
                     THEN Ok(System_from(data))
                     ELSE read_error(SERVICE_DATA_ID, CHARACTERISTIC_FIRMWARE_ID,
                                     Len(log) + 1)
    /\ UNCHANGED <<op, payload>>
    /\ modeIdle
    /\ sessionIdle

----------------------------------------------------------------------------
(* Device identification: is_miflora_device and Miflora::try_from_device    *)

\* A Uuid is its first field (the u32 that as_fields() yields first) and
\* whether its other fields are those of the Bluetooth base UUID
\* 0000xxxx-0000-1000-8000-00805f9b34fb.
Uuid(d1, base) == [d1 |-> d1, base |-> base]

\* the keys a device can advertise service data under
AdvertisedUuids ==
    {Uuid(DEVICE_UUID_PREFIX, TRUE), Uuid(6159, TRUE),
     Uuid(65536 + DEVICE_UUID_PREFIX, TRUE), Uuid(DEVICE_UUID_PREFIX, FALSE)}

\* device.service_data(): Err(_), Ok(None) or Ok(Some(map)); of the map only
\* the keys are looked at
Unread == [answer |-> "unread", uuids |-> {}]

ServiceDataAnswers ==
    {[answer |-> "err", uuids |-> {}], [answer |-> "none", uuids |-> {}]}
    \cup {[answer |-> "some", uuids |-> m] : m \in SUBSET AdvertisedUuids}

\* `let (id, _, _, _) = uuid.as_fields();`
as_fields(uuid) == uuid.d1

IsMifloraKey(uuid) == as_fields(uuid) = DEVICE_UUID_PREFIX

\* is_miflora_device: an error, or Ok(bool)
is_miflora_device(sd) ==
    IF sd.answer = "err" THEN CommandFailed(1)
    ELSE IF sd.answer = "none" THEN NoServiceData
    ELSE Ok(\E uuid \in sd.uuids : IsMifloraKey(uuid))

\* Miflora::try_from_device, a single await
try_from_device ==
    /\ pc = "idle"
    /\ \E sd \in ServiceDataAnswers :
        /\ service_data' = sd
        /\ LET found == is_miflora_device(sd) IN
           result' = IF IsErr(found) THEN found
                     ELSE IF found.value THEN Ok("Miflora")
                     ELSE DeviceNotSupported
    /\ op' = "try_from_device"
    /\ pc' = "done"
    /\ UNCHANGED <<overflow_checks, retry, count, nQuery, nCall, firstReport, lastReport>>
    /\ UNCHANGED <<log, payload, history_length, epoch_time, i, entries, start, finish>>
    /\ UNCHANGED handle

----------------------------------------------------------------------------
(* The handle functions: src/cli/src/main.rs ("cli") runs the operations of *)
(* src/lib/src/lib.rs, src/src/lib.rs ("root") runs its own.                *)

\* `try_connect(5)`, `try_disconnect(5)`
HandleRetry == 5

HandleFns == {"cli", "root"}

InHandle == handle.fn # "none" /\ op # "handle"

\* the operation that handle awaits has returned Ok
StepOk(cliOp, rootOp) ==
    /\ InHandle /\ pc = "done" /\ result.kind = "Ok"
    /\ op = IF handle.fn = "cli" THEN cliOp ELSE rootOp

\* handle calls its next operation: a fresh call, as the Call_ actions make it
Start(name, at, r, c, bytes) ==
    /\ op' = name /\ pc' = at
    /\ retry' = r /\ count' = c /\ payload' = bytes
    /\ nQuery' = 0 /\ nCall' = 0
    /\ firstReport' = "none" /\ lastReport' = "none"
    /\ log' = <<>> /\ history_length' = 0
    /\ epoch_time' = <<>> /\ i' = 0 /\ entries' = <<>>
    /\ start' = 0 /\ finish' = 0
    /\ result' = NoResult
    /\ UNCHANGED <<overflow_checks, service_data>>

\* handle is over: what it returns, or that it aborted
Finish(at, r) ==
    /\ op' = "handle" /\ pc' = at /\ result' = r
    /\ UNCHANGED <<overflow_checks, retry, count, nQuery, nCall, firstReport,
                   lastReport, log, payload, history_length, epoch_time, i,
                   entries, start, finish, service_data>>

\* `system.battery()` and `system.firmware()`: inner[0] and inner[2..]
SystemPrintable(system) == Len(system.inner) >= 2

\* the four accessors of RealtimeEntry index inner[0] to inner[9]
RealtimePrintable(values) == Len(values.inner) >= 10

\* the Debug output of a HistoricalEntry indexes inner[0] to inner[13]
HistoricalPrintable(entry) == Len(entry.inner) >= 14

\* `Miflora::from_adapter(&adapter, addr)?` and `try_connect(5)`
Call_handle ==
    /\ pc = "idle"
    /\ \E f \in HandleFns, found \in BOOLEAN :
        /\ handle' = [fn |-> f, opened |-> FALSE, closed |-> FALSE]
        /\ IF found
           THEN IF f = "cli"
                THEN Start("try_connect", "is_connected", HandleRetry, 0, <<>>)
                ELSE Start("try_connect_anyhow", WhileHead(HandleRetry),
                           HandleRetry, HandleRetry, <<>>)
           ELSE Finish("done", AnyhowTransport(1))

\* the `?` after each operation, and a panic that unwinds through handle
handle_fail ==
    /\ InHandle
    /\ \/ pc = "done" /\ IsErr(result)
       \/ pc = "aborted"
    /\ Finish(pc, result)
    /\ UNCHANGED handle

\* try_connect returned Ok: `read_system()`
handle_read_system ==
    /\ StepOk("try_connect", "try_connect_anyhow")
    /\ handle' = [handle EXCEPT !.opened = TRUE]
    /\ IF handle.fn = "cli"
       THEN Start("read_system", "s_characteristic", 0, 0, <<>>)
       ELSE Start("read_system_anyhow", "a_read", 0, 0, <<>>)

\* read_system returned Ok: the system information is printed, then
\* `read_realtime_values()` (cli) or `read_historical_values()` (root)
handle_read_values ==
    /\ StepOk("read_system", "read_system_anyhow")
    /\ UNCHANGED handle
    /\ IF ~SystemPrintable(result.value)
       THEN Finish("aborted", Panic)
       ELSE IF handle.fn = "cli"
            THEN Start("read_realtime_values", "m_characteristic", 0, 0,
                       set_realtime_data_mode(TRUE))
            ELSE Start("read_historical_values_anyhow", "a_read", 0, 0, <<>>)

\* the values were read: they are printed, then `try_disconnect(5)`
handle_try_disconnect ==
    /\ StepOk("read_realtime_values", "read_historical_values_anyhow")
    /\ LET printable ==
               IF handle.fn = "cli"
               THEN RealtimePrintable(result.value)
               ELSE \A k \in 1 .. Len(result.value) :
                        HistoricalPrintable(result.value[k])
       IN IF ~printable
          THEN Finish("aborted", Panic) /\ UNCHANGED handle
          ELSE /\ handle' = [handle EXCEPT !.closed = TRUE]
               /\ IF handle.fn = "cli"
                  THEN Start("try_disconnect", "is_connected", HandleRetry, 0, <<>>)
                  ELSE Start("try_disconnect_anyhow", WhileHead(HandleRetry),
                             HandleRetry, HandleRetry, <<>>)

\* try_disconnect returned Ok: `Ok(())`
handle_return ==
    /\ StepOk("try_disconnect", "try_disconnect_anyhow")
    /\ Finish("done", Ok(<<>>))
    /\ UNCHANGED handle

\* read_system of src/src/lib.rs, as handle sees it: Ok(System) or an error
read_system_anyhow ==
    /\ op = "read_system_anyhow" /\ pc = "a_read"
    /\ \E ok \in BOOLEAN, data \in SystemResponses :
        result' = IF ok THEN Ok(System_from(data)) ELSE AnyhowTransport(1)
    /\ pc' = "done"
    /\ UNCHANGED op
    /\ UNCHANGED gattVars
    /\ sessionIdle

\* read_historical_values of src/src/lib.rs, as handle sees it: Ok(entries),
\* an error, or an out-of-range index on a short length or epoch buffer
read_historical_values_anyhow ==
    /\ op = "read_historical_values_anyhow" /\ pc = "a_read"
    /\ \E out \in {"ok", "err", "panic"}, data \in EntryPayloads, n \in 0 .. 1 :
        /\ pc' = IF out = "panic" THEN "aborted" ELSE "done"
        /\ result' = IF out = "panic" THEN Panic
                     ELSE IF out = "err" THEN AnyhowTransport(1)
                     ELSE Ok([k \in 1 .. n |-> HistoricalEntry_new(data, NatToLE(0, 8))])
    /\ UNCHANGED op
    /\ UNCHANGED gattVars
    /\ sessionIdle

----------------------------------------------------------------------------
(* The caller takes the result; the client is idle again *)

Return ==
    /\ pc \in {"done", "aborted"}
    /\ handle.fn = "none" \/ op = "handle"
    /\ op' = "none"
    /\ pc' = "idle"
    /\ retry' = 0 /\ count' = 0 /\ nQuery' = 0 /\ nCall' = 0
    /\ firstReport' = "none" /\ lastReport' = "none"
    /\ log' = <<>> /\ payload' = <<>> /\ history_length' = 0
    /\ epoch_time' = <<>> /\ i' = 0 /\ entries' = <<>>
    /\ start' = 0 /\ finish' = 0
    /\ service_data' = Unread
    /\ handle' = NoHandle
    /\ result' = NoResult
    /\ UNCHANGED overflow_checks

Init ==
    /\ op = "none"
    /\ pc = "idle"
    /\ overflow_checks \in BOOLEAN
    /\ retry = 0 /\ count = 0 /\ nQuery = 0 /\ nCall = 0
    /\ firstReport = "none" /\ lastReport = "none"
    /\ log = <<>> /\ payload = <<>> /\ history_length = 0
    /\ epoch_time = <<>> /\ i = 0 /\ entries = <<>>
    /\ start = 0 /\ finish = 0
    /\ service_data = Unread
    /\ handle = NoHandle
    /\ result = NoResult

Next ==
    \/ Call_try_connect
    \/ try_connect_is_connected
    \/ try_connect_connect
    \/ Call_try_disconnect
    \/ try_disconnect_is_connected
    \/ try_disconnect_disconnect
    \/ Call_try_connect_anyhow
    \/ try_connect_anyhow_is_connected
    \/ try_connect_anyhow_connect
    \/ Call_try_disconnect_anyhow
    \/ try_disconnect_anyhow_is_connected
    \/ try_disconnect_anyhow_disconnect
    \/ Call_read_epoch_time
    \/ read_epoch_time_characteristic
    \/ read_epoch_time_read
    \/ Call_read_historical_values
    \/ read_historical_values_ctrl_char
    \/ read_historical_values_write_init
    \/ read_historical_values_char
    \/ read_historical_values_read_length
    \/ read_historical_values_read_char
    \/ read_historical_values_write_address
    \/ read_historical_values_read_entry
    \/ read_historical_values_return
    \/ Call_clear_historical_entries
    \/ clear_historical_entries_ctrl_char
    \/ clear_historical_entries_write
    \/ clear_historical_entries_return
    \/ Call_set_realtime_data_mode
    \/ Call_read_realtime_values
    \/ set_device_mode_characteristic
    \/ set_device_mode_write
    \/ set_device_mode_read
    \/ read_realtime_values_characteristic
    \/ read_realtime_values_read
    \/ Call_read_system
    \/ read_system_characteristic
    \/ read_system_read
    \/ try_from_device
    \/ Call_handle
    \/ handle_fail
    \/ handle_read_system
    \/ handle_read_values
    \/ handle_try_disconnect
    \/ handle_return
    \/ read_system_anyhow
    \/ read_historical_values_anyhow
    \/ Return

Spec == Init /\ [][Next]_vars

----------------------------------------------------------------------------
(* The pure functions, applied to inputs drawn from bounded sets.  The call *)
(* is in `op`, its index argument in `i`, its buffer in `payload`, and what *)
(* it returns in `result`.                                                  *)

\* every `index: u16`
Indices == 0 .. U16Max

\* u32::from_le_bytes([b0, b1, b2, b3]); the u32 is kept as its two 16-bit
\* halves, its value being lo + 65536 * hi
U32FromLE(b0, b1, b2, b3) == [lo |-> b0 + 256 * b1, hi |-> b2 + 256 * b3]

\* the accessors of RealtimeEntry; inner[n] of the code is inner[n + 1] here
RealtimeEntry_temperature(entry) == U16FromLE(entry.inner[1], entry.inner[2])

\* a brightness that starts one byte early, at the byte after the temperature
RealtimeEntry_brightness_FromByte2(entry) ==
    U32FromLE(entry.inner[3], entry.inner[4], entry.inner[5], entry.inner[6])

RealtimeEntry_brightness(entry) ==
    U32FromLE(entry.inner[4], entry.inner[5], entry.inner[6], entry.inner[7])

RealtimeEntry_moisture(entry) == entry.inner[8]

RealtimeEntry_conductivity(entry) == U16FromLE(entry.inner[9], entry.inner[10])

\* the four values that the accessors give for one entry
RealtimeEntry_decode(entry) ==
    [temperature |-> RealtimeEntry_temperature(entry),
     brightness |-> RealtimeEntry_brightness(entry),
     moisture |-> RealtimeEntry_moisture(entry),
     conductivity |-> RealtimeEntry_conductivity(entry)]

\* buffers of 10 bytes and more: every field at its extremes and in between,
\* each with several values of byte 2 and several tails
TwoBytes == {<<100, 0>>, <<255, 255>>, <<0, 1>>, <<144, 1>>}

FourBytes == {<<16, 0, 0, 0>>, <<255, 255, 255, 255>>, <<1, 2, 3, 4>>, <<0, 0, 0, 128>>}

OneByte == {0, 55, 255}

Tails == {<<>>, <<9>>, <<1, 2, 3, 4, 5, 6>>}

RealtimeBuffers ==
    {t \o <<u>> \o b \o <<m>> \o c \o tail :
        t \in TwoBytes, u \in OneByte, b \in FourBytes, m \in OneByte,
        c \in TwoBytes, tail \in Tails}

\* the accessors of HistoricalEntry other than timestamp
HistoricalEntry_temperature(entry) == U16FromLE(entry.inner[5], entry.inner[6])

\* a brightness that takes its high byte from the payload
HistoricalEntry_brightness_FourBytes(entry) ==
    U32FromLE(entry.inner[8], entry.inner[9], entry.inner[10], entry.inner[11])

\* `u32::from_le_bytes([inner[7], inner[8], inner[9], 0])`
HistoricalEntry_brightness(entry) ==
    U32FromLE(entry.inner[8], entry.inner[9], entry.inner[10], 0)

HistoricalEntry_moisture(entry) == entry.inner[12]

HistoricalEntry_conductivity(entry) == U16FromLE(entry.inner[13], entry.inner[14])

\* the four values that the accessors give for one entry
HistoricalEntry_decode(entry) ==
    [temperature |-> HistoricalEntry_temperature(entry),
     brightness |-> HistoricalEntry_brightness(entry),
     moisture |-> HistoricalEntry_moisture(entry),
     conductivity |-> HistoricalEntry_conductivity(entry)]

\* payloads of 14 bytes and more, and the epoch times they are stored with
ThreeBytes == {<<16, 0, 0>>, <<255, 255, 255>>, <<1, 2, 3>>}

HistoricalTails == {<<>>, <<7, 7>>}

HistoricalBuffers ==
    {o \o t \o <<u>> \o b \o <<v>> \o <<m>> \o c \o tail :
        o \in FourBytes, t \in TwoBytes, u \in OneByte, b \in ThreeBytes,
        v \in OneByte, m \in OneByte, c \in TwoBytes, tail \in HistoricalTails}

EpochTimes ==
    {NatToLE(0, 8), NatToLE(1700000000, 8),
     <<255, 255, 255, 255, 255, 255, 255, 255>>}

CodecInit ==
    /\ pc = "idle"
    /\ overflow_checks \in BOOLEAN
    /\ retry = 0 /\ count = 0 /\ nQuery = 0 /\ nCall = 0
    /\ firstReport = "none" /\ lastReport = "none"
    /\ log = <<>> /\ history_length = 0
    /\ entries = <<>>
    /\ start = 0 /\ finish = 0
    /\ service_data = Unread
    /\ handle = NoHandle
    /\ result = NoResult
    /\ \/ /\ op = "historical_entry_address"
          /\ payload = <<>> /\ i \in Indices /\ epoch_time = <<>>
       \/ /\ op = "RealtimeEntry"
          /\ payload \in RealtimeBuffers /\ i = 0 /\ epoch_time = <<>>
       \/ /\ op = "HistoricalEntry"
          /\ payload \in HistoricalBuffers /\ i = 0 /\ epoch_time \in EpochTimes

CodecIdle ==
    UNCHANGED <<op, overflow_checks, retry, count, nQuery, nCall, firstReport,
                lastReport, log, payload, history_length, epoch_time, i, entries,
                start, finish, service_data, handle>>

Apply_historical_entry_address ==
    /\ op = "historical_entry_address" /\ pc = "idle"
    /\ pc' = "done"
    /\ result' = Ok(historical_entry_address(i))
    /\ CodecIdle

\* RealtimeEntry::from(payload) and its four accessors
Apply_RealtimeEntry ==
    /\ op = "RealtimeEntry" /\ pc = "idle"
    /\ pc' = "done"
    /\ result' = Ok(RealtimeEntry_decode(RealtimeEntry_from(payload)))
    /\ CodecIdle

\* HistoricalEntry::new(payload, epoch_time) and its four value accessors
Apply_HistoricalEntry ==
    /\ op = "HistoricalEntry" /\ pc = "idle"
    /\ pc' = "done"
    /\ result' = Ok(HistoricalEntry_decode(HistoricalEntry_new(payload, epoch_time)))
    /\ CodecIdle

CodecNext ==
    \/ Apply_historical_entry_address
    \/ Apply_RealtimeEntry
    \/ Apply_HistoricalEntry

CodecSpec == CodecInit /\ [][CodecNext]_vars

----------------------------------------------------------------------------
(* The claims about the retry loops *)

\* try_connect has so far seen only "not connected" reports and failed connects
ConnectAlwaysFailed ==
    /\ op = "try_connect"
    /\ lastReport \in {"none", "no"}
    /\ result.kind # "Ok"

\* C1: try_connect(n), on a device that reports not connected and whose connect
\* fails on every call, issues exactly n+1 connect calls, never more, and then
\* returns TooManyRetries with retries = n+1.
C1_ExactlyBudgetPlusOneAttempts ==
    ConnectAlwaysFailed =>
        /\ nCall <= retry + 1
        /\ nCall = retry + 1 =>
               /\ pc = "done"
               /\ result.kind = "TooManyRetries"
               /\ result.retries = retry + 1

\* the same statement for the budgets whose n+1 is still a u8
C1_HoldsBelowU8Max ==
    (ConnectAlwaysFailed /\ retry < U8Max) =>
        /\ nCall <= retry + 1
        /\ nCall = retry + 1 =>
               /\ pc = "done"
               /\ result.kind = "TooManyRetries"
               /\ result.retries = retry + 1

\* C2: for every retry budget, try_connect on a device that reports connected
\* returns Ok with no connect call, and try_disconnect on a device that reports
\* not connected returns Ok with no disconnect call.
C2_NoCallWhenAlreadySettled ==
    /\ (op = "try_connect" /\ firstReport = "yes") =>
           (pc = "done" /\ result = Ok(<<>>) /\ nCall = 0)
    /\ (op = "try_disconnect" /\ firstReport = "no") =>
           (pc = "done" /\ result = Ok(<<>>) /\ nCall = 0)

C2_Witness ==
    /\ op = "try_connect" /\ retry = 0 /\ firstReport = "yes"
    /\ pc = "done" /\ nQuery = 1

----------------------------------------------------------------------------
(* Reading the log *)

Positions(P(_)) == {k \in 1 .. Len(log) : P(log[k])}

IsWrite(e) == e.call = "write"

IsRead(e) == e.call = "read"

Touches(e, sid, cid) == e.service_id = sid /\ e.characteristic_id = cid

\* a write of an entry-address command to the control characteristic
IsAddressWrite(e) ==
    /\ IsWrite(e)
    /\ Touches(e, SERVICE_HISTORY_ID, CHARACTERISTIC_HISTORY_CTRL_ID)
    /\ Len(e.data) = 3 /\ e.data[1] = 161

\* any access (resolution or read) to the epoch-time characteristic
IsEpochAccess(e) == e.characteristic_id = CHARACTERISTIC_HISTORY_TIME_ID

IsEpochRead(e) ==
    IsRead(e) /\ Touches(e, SERVICE_HISTORY_ID, CHARACTERISTIC_HISTORY_TIME_ID)

IsHistoryRead(e) ==
    IsRead(e) /\ Touches(e, SERVICE_HISTORY_ID, CHARACTERISTIC_HISTORY_READ_ID)

\* the position of the j-th entry-address write
AddressPosition(j) ==
    CHOOSE k \in Positions(IsAddressWrite) :
        Cardinality({m \in Positions(IsAddressWrite) : m <= k}) = j

\* the history-length response, once it is read: the first read of the call
LengthRead == log[CHOOSE k \in Positions(IsRead) : \A m \in Positions(IsRead) : k <= m]

Returned == pc \in {"done", "aborted"}

----------------------------------------------------------------------------
(* The claims about read_historical_values *)

\* C3: when the first two bytes of the history-length response decode to 0,
\* read_historical_values returns Ok with an empty sequence: the length read is
\* its last transport call, so the epoch-time characteristic (58, 64) is neither
\* resolved nor read and no entry address is written.
C3_EmptyHistorySkipsEpoch ==
    (/\ op = "read_historical_values"
     /\ Positions(IsRead) # {}
     /\ LengthRead.ok
     /\ Len(LengthRead.data) >= 2
     /\ U16FromLE(LengthRead.data[1], LengthRead.data[2]) = 0)
    => /\ pc = "done"
       /\ result = Ok(<<>>)
       /\ log[Len(log)] = LengthRead
       /\ Positions(IsEpochAccess) = {}
       /\ Positions(IsAddressWrite) = {}

C3_Witness ==
    /\ op = "read_historical_values" /\ pc = "done"
    /\ Len(log) = 6
    /\ log[6].ok /\ log[6].data = <<0, 0, 7>>
    /\ result = Ok(<<>>)

\* the conclusion of C4, on the log and the result
ExactRoundTrips ==
    /\ result.kind = "Ok"
    /\ Len(result.value) = history_length
    /\ Cardinality(Positions(IsEpochRead)) = 1
    /\ Cardinality(Positions(IsAddressWrite)) = history_length
    /\ \A k \in Positions(IsAddressWrite) :
           k < Len(log) /\ IsHistoryRead(log[k + 1])

\* C4: for entry_count = N > 0 and a transport that never fails,
\* read_historical_values issues exactly one epoch-time read and exactly N
\* entry-address writes, each immediately followed by one read of the
\* history-read characteristic, and returns a sequence of length exactly N.
C4_ExactRoundTrips ==
    (/\ op = "read_historical_values"
     /\ Returned
     /\ history_length > 0
     /\ \A k \in 1 .. Len(log) : log[k].ok)
    => ExactRoundTrips

\* the same statement for the calls that return (do not abort)
C4_HoldsWhenNotAborting ==
    (/\ op = "read_historical_values"
     /\ pc = "done"
     /\ history_length > 0
     /\ \A k \in 1 .. Len(log) : log[k].ok)
    => ExactRoundTrips

\* C5: the entry-address writes are issued for the indices 0, 1, 2, ... in this
\* order, without a gap or a repetition, and the i-th element of the returned
\* sequence holds the payload of the read that followed the address write of
\* index i.
C5_IndexOrderPreserved ==
    op = "read_historical_values" =>
        LET n == Cardinality(Positions(IsAddressWrite)) IN
        /\ \A j \in 1 .. n :
               log[AddressPosition(j)].data = <<161, (j - 1) % 256, (j - 1) \div 256>>
        /\ \A j \in 1 .. (n - 1) : AddressPosition(j) < AddressPosition(j + 1)
        /\ (pc = "done" /\ result.kind = "Ok") =>
               /\ Len(result.value) = n
               /\ \A j \in 1 .. n :
                      /\ IsHistoryRead(log[AddressPosition(j) + 1])
                      /\ result.value[j].inner = log[AddressPosition(j) + 1].data

C5_Witness ==
    /\ op = "read_historical_values" /\ pc = "done" /\ result.kind = "Ok"
    /\ Len(result.value) = 2
    /\ result.value[1].inner # result.value[2].inner

\* C6: every HistoricalEntry of one call carries the same epoch_time, the one
\* computed from the single epoch-time read of that call.
C6_OneEpochPerCall ==
    (op = "read_historical_values" /\ entries # <<>>) =>
        /\ Cardinality(Positions(IsEpochRead)) = 1
        /\ \A k \in Positions(IsEpochRead) :
               \A j \in 1 .. Len(entries) :
                   entries[j].epoch_time = EpochTime(start, finish, log[k].data).bytes
        /\ \A j \in 1 .. Len(entries) : entries[j].epoch_time = entries[1].epoch_time
        /\ (pc = "done" /\ result.kind = "Ok") => result.value = entries

C6_Witness ==
    /\ op = "read_historical_values" /\ pc = "done" /\ result.kind = "Ok"
    /\ Len(result.value) = 2
    /\ result.value[1].inner[1] # result.value[2].inner[1]
    /\ start # finish

\* C7: the first transport failure of read_historical_values ends the call with
\* an error: the failed call is the last one of the log, and the result is an
\* error that carries no entries.
C7_FirstFailureAborts ==
    op = "read_historical_values" =>
        \A k \in 1 .. Len(log) :
            ~log[k].ok =>
                /\ k = Len(log)
                /\ pc = "done"
                /\ IsErr(result)
                /\ result.value = <<>>

C7_Witness ==
    /\ op = "read_historical_values" /\ pc = "done"
    /\ history_length = 2 /\ Len(entries) = 1
    /\ ~log[Len(log)].ok /\ IsRead(log[Len(log)])
    /\ IsErr(result)

\* C8: a failed read of read_historical_values returns UnableToRead with the
\* ids of the characteristic whose read failed, a failed write UnableToWrite
\* with the ids of the written characteristic.
C8_ErrorNamesTheFailedCall ==
    (op = "read_historical_values" /\ log # <<>> /\ ~log[Len(log)].ok) =>
        LET e == log[Len(log)] IN
        /\ IsRead(e) =>
               /\ result.kind = "UnableToRead"
               /\ result.service_id = e.service_id
               /\ result.characteristic_id = e.characteristic_id
        /\ IsWrite(e) =>
               /\ result.kind = "UnableToWrite"
               /\ result.service_id = e.service_id
               /\ result.characteristic_id = e.characteristic_id

\* the same statement for every call but the epoch-time read
C8_HoldsButForEpochRead ==
    (op = "read_historical_values" /\ log # <<>> /\ ~log[Len(log)].ok
        /\ ~IsEpochRead(log[Len(log)])) =>
        LET e == log[Len(log)] IN
        /\ IsRead(e) =>
               /\ result.kind = "UnableToRead"
               /\ result.service_id = e.service_id
               /\ result.characteristic_id = e.characteristic_id
        /\ IsWrite(e) =>
               /\ result.kind = "UnableToWrite"
               /\ result.service_id = e.service_id
               /\ result.characteristic_id = e.characteristic_id

----------------------------------------------------------------------------
(* The claims about set_device_mode and the history commands *)

InModeSwitch == op \in {"set_realtime_data_mode", "read_realtime_values"}

IsModeWrite(e) == IsWrite(e) /\ Touches(e, SERVICE_DATA_ID, CHARACTERISTIC_MODE_ID)

IsModeRead(e) == IsRead(e) /\ Touches(e, SERVICE_DATA_ID, CHARACTERISTIC_MODE_ID)

\* set_device_mode returned Ok(()) to its caller
ModeSwitchOk ==
    IF op = "set_realtime_data_mode"
    THEN pc = "done" /\ result = Ok(<<>>)
    ELSE pc \in {"r_characteristic", "r_read"} \/ (pc = "done" /\ Len(log) > 4)

\* C9: set_device_mode writes the command payload to the mode characteristic
\* (49, 50), then reads the same characteristic back, and returns Ok if and only
\* if the bytes read equal the bytes written; any other echo returns
\* InvalidWrittenValue{49, 50}.
C9_WriteThenVerify ==
    InModeSwitch =>
        /\ \A k \in Positions(IsWrite) :
               k = 3 /\ IsModeWrite(log[k]) /\ log[k].data = payload
        /\ \A k \in Positions(IsModeRead) :
               k = 4 /\ IsModeWrite(log[3]) /\ log[3].ok
        /\ ModeSwitchOk <=>
               (Len(log) >= 4 /\ IsModeRead(log[4]) /\ log[4].ok
                   /\ log[4].data = log[3].data)
        /\ (Len(log) >= 4 /\ log[4].ok /\ log[4].data # log[3].data) =>
               /\ pc = "done"
               /\ result = InvalidWrittenValue(SERVICE_DATA_ID, CHARACTERISTIC_MODE_ID)

C9_Witness ==
    /\ InModeSwitch /\ pc = "done"
    /\ Len(log) = 4
    /\ log[3].data = <<160, 31>> /\ log[3].ok
    /\ log[4].data = <<192, 31>> /\ log[4].ok
    /\ result.kind = "InvalidWrittenValue"

\* what read_historical_values may write, and where the read-success command
\* may be written at all
HistoryWritesOnly ==
    /\ op = "read_historical_values" =>
           /\ \A k \in Positions(IsWrite) :
                  /\ Touches(log[k], SERVICE_HISTORY_ID, CHARACTERISTIC_HISTORY_CTRL_ID)
                  /\ log[k].data = CMD_HISTORY_READ_INIT \/ IsAddressWrite(log[k])
                  /\ log[k].data # CMD_HISTORY_READ_SUCCESS
                  /\ log[k].data # CMD_HISTORY_READ_FAILED
           /\ Cardinality({k \in Positions(IsWrite) :
                               log[k].data = CMD_HISTORY_READ_INIT}) <= 1
    /\ \A k \in Positions(IsWrite) :
           log[k].data = CMD_HISTORY_READ_SUCCESS =>
               /\ op = "clear_historical_entries"
               /\ Touches(log[k], SERVICE_HISTORY_ID, CHARACTERISTIC_HISTORY_CTRL_ID)

SuccessWrites == {k \in Positions(IsWrite) : log[k].data = CMD_HISTORY_READ_SUCCESS}

\* C10, as claimed: read_historical_values never writes A2 00 00 nor A3 00 00,
\* its only writes are A0 00 00 once and the A1 address commands; A2 00 00 is
\* written only by clear_historical_entries, exactly once per call.
C10_ClearWritesExactlyOnce ==
    /\ HistoryWritesOnly
    /\ (op = "clear_historical_entries" /\ Returned) => Cardinality(SuccessWrites) = 1

\* C10, amended: ... A2 00 00 is written only by clear_historical_entries, at
\* most once per call: exactly once when the control characteristic (58, 61)
\* was resolved, and not at all when its resolution failed.
C10_ClearWritesOnceIfResolved ==
    /\ HistoryWritesOnly
    /\ op = "clear_historical_entries" =>
           /\ Cardinality(SuccessWrites) <= 1
           /\ Returned =>
                  (Cardinality(SuccessWrites) = 1 <=> (Len(log) >= 2 /\ log[2].ok))

C10_Witness ==
    /\ op = "clear_historical_entries" /\ pc = "done"
    /\ Cardinality(SuccessWrites) = 1
    /\ result = Ok(<<>>)

----------------------------------------------------------------------------
(* C11: the error of a failed write in clear_historical_entries.            *)

ClearWriteFailed ==
    /\ op = "clear_historical_entries" /\ pc = "done"
    /\ Len(log) >= 1
    /\ IsWrite(log[Len(log)]) /\ ~log[Len(log)].ok

\* C11: when the write of A2 00 00 inside clear_historical_entries fails,
\* the call returns UnableToWrite with service_id 58 and characteristic_id 61.
C11_ClearWriteFailureIsUnableToWrite ==
    ClearWriteFailed =>
        /\ result.kind = "UnableToWrite"
        /\ result.service_id = SERVICE_HISTORY_ID
        /\ result.characteristic_id = CHARACTERISTIC_HISTORY_CTRL_ID

\* What the code returns instead: the ids are right, the variant is not.
C11_ClearWriteFailureIsUnableToRead ==
    ClearWriteFailed =>
        result = UnableToRead(SERVICE_HISTORY_ID, CHARACTERISTIC_HISTORY_CTRL_ID, Len(log))

----------------------------------------------------------------------------
(* C12: the buffers the decoded values are built from.                      *)

\* the call returned Ok and `value` is what it returned
ReturnedOk(name) == op = name /\ pc = "done" /\ result.kind = "Ok"

\* the last transport call was a read that answered fewer than n bytes
ShortRead(n) ==
    /\ Len(log) >= 1
    /\ IsRead(log[Len(log)]) /\ log[Len(log)].ok
    /\ Len(log[Len(log)].data) < n

\* C12: a System, a RealtimeEntry, a HistoricalEntry is only ever built from
\* a buffer of at least 3, 10, 14 bytes; on a shorter buffer read_system,
\* read_realtime_values and read_historical_values return an error.
C12_DecodedBuffersLongEnough ==
    /\ ReturnedOk("read_system") => Len(result.value.inner) >= 3
    /\ ReturnedOk("read_realtime_values") => Len(result.value.inner) >= 10
    /\ op = "read_historical_values" =>
           \A k \in 1 .. Len(entries) : Len(entries[k].inner) >= 14
    /\ (op = "read_system" /\ pc = "done" /\ ShortRead(3)) => IsErr(result)
    /\ (op = "read_realtime_values" /\ pc = "done" /\ ShortRead(10)) => IsErr(result)

\* What the code does: whatever the read answers is wrapped unchanged.
C12_BufferWrappedUnchecked ==
    /\ ReturnedOk("read_system") => result.value.inner = log[Len(log)].data
    /\ ReturnedOk("read_realtime_values") => result.value.inner = log[Len(log)].data
    /\ (op = "read_historical_values" /\ pc \in {"h_read_char", "h_return"}
        /\ Len(entries) >= 1) =>
           entries[Len(entries)].inner = log[Len(log)].data

----------------------------------------------------------------------------
(* C13: the outcomes of device identification.                              *)

\* the 16-bit short form of a UUID is defined for the UUIDs built on the
\* Bluetooth base UUID whose first field fits 16 bits
HasShortForm(uuid, short) == uuid.base /\ uuid.d1 = short

Identified ==
    /\ op = "try_from_device" /\ pc = "done"
    /\ service_data.answer \in {"none", "some"}

\* C13: try_from_device has three outcomes: an absent or empty service-data
\* map fails with NoServiceData; a non-empty map with no entry whose UUID
\* short form is 0xFE95 fails with DeviceNotSupported; a map with a matching
\* entry succeeds and yields a client.
C13_ThreeOutcomes ==
    Identified =>
        IF service_data.answer = "none" \/ service_data.uuids = {}
        THEN result = NoServiceData
        ELSE IF \E uuid \in service_data.uuids : HasShortForm(uuid, DEVICE_UUID_PREFIX)
        THEN result = Ok("Miflora")
        ELSE result = DeviceNotSupported

\* What the code does: only an absent map is NoServiceData, and a key
\* matches on its first field alone.
C13_OutcomesOfTheCode ==
    Identified =>
        IF service_data.answer = "none"
        THEN result = NoServiceData
        ELSE IF \E uuid \in service_data.uuids : uuid.d1 = DEVICE_UUID_PREFIX
        THEN result = Ok("Miflora")
        ELSE result = DeviceNotSupported

----------------------------------------------------------------------------
(* C14: HistoricalEntry::timestamp                                          *)

\* the entries of read_historical_values whose payload has the four offset bytes
Stamped == {k \in 1 .. Len(entries) : Len(entries[k].inner) >= 4}

\* C14: timestamp() returns exactly epoch_time + offset, offset being the
\* little-endian u32 of payload bytes 0..3, for every epoch_time of the u64
\* range and every offset of 0..=u32::MAX: the sum never overflows, wraps
\* around or aborts.
C14_TimestampIsTheExactSum ==
    op = "read_historical_values" =>
        \A k \in Stamped : ~timestamp(entries[k]).overflow

\* The sum is exact when the epoch time is itself exact, which it is in
\* every build that checks for overflow.
C14_ExactWhenEpochExact ==
    (op = "read_historical_values" /\ overflow_checks) =>
        \A k \in Stamped : ~timestamp(entries[k]).overflow

----------------------------------------------------------------------------
(* C15, C16: the retry loops of src/src/lib.rs                              *)

\* C15: in src/src/lib.rs, try_connect(retry) on a device that reports
\* connected returns Ok with no connect call, for every budget 0..=255,
\* retry = 0 included.  (The device has answered nothing but "connected":
\* firstReport is "none" when it was not even asked.)
C15_AnyhowConnectIdempotent ==
    (op = "try_connect_anyhow" /\ pc = "done" /\ firstReport \in {"none", "yes"}) =>
        (result = Ok(<<>>) /\ nCall = 0)

\* the same for the budgets that let the loop run at least once
C15_HoldsForPositiveBudgets ==
    (op = "try_connect_anyhow" /\ pc = "done" /\ firstReport \in {"none", "yes"}
     /\ retry > 0) =>
        (result = Ok(<<>>) /\ nCall = 0 /\ nQuery = 1)

\* the loop ran out of attempts: every transport call failed
AnyhowExhausted ==
    /\ op \in {"try_connect_anyhow", "try_disconnect_anyhow"}
    /\ pc = "done" /\ result = AnyhowMessage

\* C16: in src/src/lib.rs, try_connect(n) against a connect that always
\* fails makes n+1 connect attempts before it returns an error, and
\* try_disconnect(n) does the same with disconnect.
C16_AnyhowBudgetPlusOneAttempts ==
    AnyhowExhausted => nCall = retry + 1

\* What the code does: n attempts.
C16_AnyhowBudgetAttempts ==
    AnyhowExhausted => nCall = retry

----------------------------------------------------------------------------
(* C17..C20: the retry loops of src/lib/src/lib.rs                          *)

DisconnectAlwaysFailed ==
    /\ op = "try_disconnect"
    /\ lastReport \in {"none", "yes"}
    /\ result.kind # "Ok"

\* C17: try_disconnect(n), on a device that reports connected and whose
\* disconnect fails on every call, issues exactly n+1 disconnect calls and
\* then returns TooManyRetries with retries = n+1.
C17_DisconnectBudgetPlusOneAttempts ==
    DisconnectAlwaysFailed =>
        /\ nCall <= retry + 1
        /\ nCall = retry + 1 =>
               /\ pc = "done"
               /\ result.kind = "TooManyRetries"
               /\ result.retries = retry + 1

\* the same statement for the budgets whose n+1 is still a u8
C17_HoldsBelowU8Max ==
    (DisconnectAlwaysFailed /\ retry < U8Max) =>
        /\ nCall <= retry + 1
        /\ nCall = retry + 1 =>
               /\ pc = "done"
               /\ result.kind = "TooManyRetries"
               /\ result.retries = retry + 1

\* try_connect on a device that answers "not connected" whenever asked
ConnectNeeded == op = "try_connect" /\ lastReport \in {"none", "no"}

\* connect() succeeded: the call returned Ok although the device said "no"
ConnectSucceeded == ConnectNeeded /\ pc = "done" /\ result.kind = "Ok"

\* the number of connect calls that have failed: all of them but a last
\* successful one
ConnectFailures == IF ConnectSucceeded THEN nCall - 1 ELSE nCall

\* C18: if connect fails k times and then succeeds, with k <= n, try_connect(n)
\* returns Ok after exactly k+1 connect calls: the k failures were counted
\* and retried, none ended the call.  A failure is surfaced to the caller only
\* when more than n connect calls have failed.
C18_RetriedUpToTheBudget ==
    ConnectNeeded =>
        /\ (IsErr(result) \/ pc = "aborted") => ConnectFailures > retry
        /\ (ConnectSucceeded /\ ConnectFailures <= retry) =>
               (count = ConnectFailures /\ nCall = count + 1)
        /\ (pc \in {"is_connected", "call"} /\ ConnectFailures <= retry) =>
               count = ConnectFailures

\* k = n = 255: connect succeeds at its 256th call
C18_Witness ==
    /\ ConnectSucceeded
    /\ retry = U8Max /\ ConnectFailures = retry /\ nCall = retry + 1

LoopAlwaysFailed ==
    /\ \/ op = "try_connect" /\ lastReport \in {"none", "no"}
       \/ op = "try_disconnect" /\ lastReport \in {"none", "yes"}
    /\ result.kind # "Ok"

\* C19: the cause that TooManyRetries carries out of try_connect and
\* try_disconnect is the transport error of the last failed attempt, which is
\* attempt number n+1, not that of the first or of any earlier attempt.
\* (The cause of an attempt is modelled by the attempt's number.)
C19_CauseIsTheLastFailure ==
    (op \in {"try_connect", "try_disconnect"} /\ result.kind = "TooManyRetries") =>
        /\ pc = "done"
        /\ nCall = retry + 1
        /\ result.cause = nCall

C19_Witness ==
    /\ op = "try_disconnect" /\ pc = "done"
    /\ result.kind = "TooManyRetries"
    /\ retry = MaxSmallRetry /\ result.cause = retry + 1

\* C20: try_connect(retry) and try_disconnect(retry) return, Ok or an error,
\* for every budget 0..=255 when the transport call fails on every attempt:
\* the u8 counter comes to exceed the budget, so the call has returned, and
\* not aborted, once retry+1 attempts have failed.
C20_RetryLoopsReturn ==
    LoopAlwaysFailed =>
        /\ pc # "aborted"
        /\ nCall >= retry + 1 => (pc = "done" /\ IsErr(result))

\* the same statement for the budgets below 255
C20_ReturnsBelowU8Max ==
    (LoopAlwaysFailed /\ retry < U8Max) =>
        /\ pc # "aborted"
        /\ nCall >= retry + 1 => (pc = "done" /\ IsErr(result))

\* In a build without overflow checks the loop of retry = 255 is back where it
\* started after 256 failures, count = 0, and it goes round again.
C20_WrappedLoopStartsOver ==
    (LoopAlwaysFailed /\ retry = U8Max /\ nCall > U8Max /\ ~overflow_checks) =>
        /\ pc \in {"is_connected", "call"}
        /\ nCall < CallCap => count = nCall % (U8Max + 1)

----------------------------------------------------------------------------
(* C21: what read_historical_values resolves before its first write.        *)

\* a characteristic lookup (the second call of a resolution)
IsLookup(e) == e.call = "characteristic"

IsHistoryReadLookup(e) ==
    IsLookup(e) /\ Touches(e, SERVICE_HISTORY_ID, CHARACTERISTIC_HISTORY_READ_ID)

IsHistoryControlLookup(e) ==
    IsLookup(e) /\ Touches(e, SERVICE_HISTORY_ID, CHARACTERISTIC_HISTORY_CTRL_ID)

\* the history-read characteristic (58, 59) could not be resolved: its lookup
\* failed, or the service lookup that follows the resolution of (58, 61) did
HistoryReadUnresolved ==
    /\ op = "read_historical_values" /\ pc = "done"
    /\ result.kind \in {"ServiceNotFound", "CharacteristicNotFound"}
    /\ \/ IsHistoryReadLookup(log[Len(log)])
       \/ /\ log[Len(log)].call = "service"
          /\ Positions(IsHistoryControlLookup) # {}
          /\ Positions(IsHistoryReadLookup) = {}

\* C21: read_historical_values resolves the history-control (58, 61) and the
\* history-read (58, 59) characteristics before it writes the read-init
\* command: when the history-read characteristic cannot be resolved, the call
\* fails without having written anything to the device.
C21_BothResolvedBeforeInit ==
    /\ op = "read_historical_values" =>
           \A w \in Positions(IsWrite) :
               \E k \in Positions(IsHistoryReadLookup) : k < w /\ log[k].ok
    /\ HistoryReadUnresolved => Positions(IsWrite) = {}

\* What the code does: only the control characteristic is resolved before
\* the read-init write, which is the third call; the resolution of (58, 59)
\* comes after it.
C21_InitWrittenBeforeReadResolved ==
    op = "read_historical_values" =>
        /\ \A w \in Positions(IsWrite) : w >= 3 /\ log[2].ok
        /\ \A k \in Positions(IsHistoryReadLookup) :
               /\ 3 \in Positions(IsWrite) /\ log[3].data = CMD_HISTORY_READ_INIT
               /\ k > 3

----------------------------------------------------------------------------
(* C22: read_realtime_values reads the data only in realtime mode.          *)

IsDataRead(e) == IsRead(e) /\ Touches(e, SERVICE_DATA_ID, CHARACTERISTIC_DATA_ID)

IsDataAccess(e) == Touches(e, SERVICE_DATA_ID, CHARACTERISTIC_DATA_ID)

\* the write of A0 1F at position w succeeded and the read-back at r echoed it
EnabledAndVerified(w, r) ==
    /\ w < r
    /\ IsModeWrite(log[w]) /\ log[w].ok /\ log[w].data = CMD_REALTIME_ENABLE
    /\ IsModeRead(log[r]) /\ log[r].ok /\ log[r].data = CMD_REALTIME_ENABLE

\* the mode switch of this call failed at its write, its read-back or its echo
ModeSwitchFailed ==
    \/ \E k \in Positions(IsModeWrite) : ~log[k].ok
    \/ \E k \in Positions(IsModeRead) : ~log[k].ok \/ log[k].data # CMD_REALTIME_ENABLE

\* the error set_device_mode makes of the failure at the last call of the log
ModeSwitchError ==
    LET last == log[Len(log)] IN
    IF IsModeWrite(last) THEN mode_write_error(Len(log))
    ELSE IF ~last.ok THEN mode_read_error(Len(log))
    ELSE InvalidWrittenValue(SERVICE_DATA_ID, CHARACTERISTIC_MODE_ID)

\* C22: read_realtime_values reads the data characteristic (49, 52) only after
\* set_device_mode has written A0 1F and verified its echo; if the mode write,
\* the read-back or the echo comparison fails, the data characteristic is
\* never read and the mode-switch error is returned unchanged.
C22_DataReadOnlyInRealtimeMode ==
    op = "read_realtime_values" =>
        /\ \A k \in Positions(IsDataAccess) :
               \E w \in 1 .. k, r \in 1 .. k : r < k /\ EnabledAndVerified(w, r)
        /\ ModeSwitchFailed =>
               /\ Positions(IsDataAccess) = {}
               /\ pc = "done"
               /\ result = ModeSwitchError

\* the data was read after a verified switch
C22_Witness ==
    /\ op = "read_realtime_values" /\ pc = "done" /\ result.kind = "Ok"
    /\ \E k \in Positions(IsDataRead) : log[k].ok /\ EnabledAndVerified(3, 4)

\* the echo did not match, and the call ended there
C22_WitnessMismatch ==
    /\ op = "read_realtime_values" /\ pc = "done"
    /\ result.kind = "InvalidWrittenValue"
    /\ ModeSwitchFailed /\ Positions(IsDataAccess) = {}

----------------------------------------------------------------------------
(* C23: set_device_mode does not retry.                                     *)

\* C23: one invocation of set_device_mode issues at most one write and at
\* most one read of the mode characteristic: a failed write returns
\* UnableToWrite{49, 50} with no read-back, a failed read-back returns
\* UnableToRead{49, 50}, and an echo mismatch is not followed by a second write.
C23_ModeSwitchHasNoRetry ==
    InModeSwitch =>
        /\ Cardinality(Positions(IsModeWrite)) <= 1
        /\ Cardinality(Positions(IsModeRead)) <= 1
        /\ \A k \in Positions(IsModeWrite) : ~log[k].ok =>
               /\ pc = "done" /\ Len(log) = k
               /\ result = UnableToWrite(SERVICE_DATA_ID, CHARACTERISTIC_MODE_ID, k)
        /\ \A k \in Positions(IsModeRead) : ~log[k].ok =>
               /\ pc = "done" /\ Len(log) = k
               /\ result = UnableToRead(SERVICE_DATA_ID, CHARACTERISTIC_MODE_ID, k)
        /\ \A k \in Positions(IsModeRead) : (log[k].ok /\ log[k].data # payload) =>
               /\ pc = "done" /\ Len(log) = k
               /\ result.kind = "InvalidWrittenValue"

\* the write failed: nothing was read back
C23_Witness ==
    /\ op = "set_realtime_data_mode" /\ pc = "done"
    /\ result.kind = "UnableToWrite"
    /\ Cardinality(Positions(IsModeWrite)) = 1
    /\ Positions(IsModeRead) = {}

\* the read-back failed after the one write
C23_WitnessReadBack ==
    /\ op = "set_realtime_data_mode" /\ pc = "done"
    /\ result.kind = "UnableToRead"
    /\ Cardinality(Positions(IsModeWrite)) = 1
    /\ Cardinality(Positions(IsModeRead)) = 1

----------------------------------------------------------------------------
(* C24: the errors of characteristic resolution.                            *)

IsServiceLookup(e) == e.call = "service"

IsFailedLookup(e) == (IsServiceLookup(e) \/ IsLookup(e)) /\ ~e.ok

IsTransfer(e) == IsWrite(e) \/ IsRead(e)

ResolutionFailed ==
    pc = "done" /\ result.kind \in {"ServiceNotFound", "CharacteristicNotFound"}

\* the error that a failed lookup at position k is turned into
LookupError(k) ==
    IF IsServiceLookup(log[k])
    THEN ServiceNotFound(log[k].service_id, k)
    ELSE CharacteristicNotFound(log[k].service_id, log[k].characteristic_id, k)

\* a lookup is never made twice in a row: a characteristic lookup follows a
\* successful lookup of its service, a service lookup follows no failed one
LookupsWellFormed ==
    \A k \in 1 .. Len(log) :
        /\ IsLookup(log[k]) =>
               /\ k > 1 /\ IsServiceLookup(log[k - 1]) /\ log[k - 1].ok
               /\ log[k - 1].service_id = log[k].service_id
        /\ IsServiceLookup(log[k]) => (k = 1 \/ ~IsFailedLookup(log[k - 1]))

\* C24: resolution fails with ServiceNotFound{service_id} when the service
\* lookup fails (the characteristic lookup is then not attempted) and with
\* CharacteristicNotFound{service_id, characteristic_id} when the service
\* exists but the characteristic lookup fails; every public read/write
\* operation returns that error without issuing any read or write and without
\* retrying the lookup.
C24_ResolutionErrorsWithoutTransfer ==
    /\ LookupsWellFormed
    /\ \A k \in Positions(IsFailedLookup) :
           k = Len(log) /\ pc = "done" /\ result = LookupError(k)
    /\ ResolutionFailed =>
           /\ IsFailedLookup(log[Len(log)])
           /\ Positions(IsTransfer) = {}

\* C24, amended: ... every public read/write operation returns that error at
\* once: the failed lookup is the last call it makes, so no read or write
\* follows it and the lookup is not retried.  Reads and writes of the
\* operation's earlier steps may have been issued before it.
C24_ResolutionErrorsEndTheCall ==
    /\ LookupsWellFormed
    /\ \A k \in Positions(IsFailedLookup) :
           k = Len(log) /\ pc = "done" /\ result = LookupError(k)
    /\ ResolutionFailed =>
           /\ IsFailedLookup(log[Len(log)])
           /\ result = LookupError(Len(log))

\* the epoch-time characteristic is missing: the call fails after its
\* earlier steps have written and read
C24_Witness ==
    /\ op = "read_historical_values" /\ pc = "done"
    /\ result.kind = "CharacteristicNotFound"
    /\ result.characteristic_id = CHARACTERISTIC_HISTORY_TIME_ID
    /\ Positions(IsWrite) # {} /\ Positions(IsRead) # {}

\* the service is missing: its characteristic is not looked up
C24_WitnessService ==
    /\ op = "read_system" /\ pc = "done"
    /\ result = ServiceNotFound(SERVICE_DATA_ID, 1)
    /\ Len(log) = 1

----------------------------------------------------------------------------
(* C25: the arithmetic of read_epoch_time.                                  *)

\* read_epoch_time, called on its own, got four bytes or more from the
\* epoch-time characteristic
EpochAnswered ==
    /\ op = "read_epoch_time" /\ Returned
    /\ Len(log) = 3 /\ IsEpochRead(log[3]) /\ log[3].ok
    /\ Len(log[3].data) >= 4

\* epoch_time + boot_offset_seconds = floor((t0 + t1) / 2), exactly
EpochIsExact ==
    /\ pc = "done" /\ result.kind = "Ok"
    /\ ~EpochTime(start, finish, log[3].data).overflow
    /\ LET sum == AddLE(result.value, U32AsU64(log[3].data), 0) IN
       ~sum.overflow /\ sum.bytes = WallTime(start, finish)

\* C25: for every wall-clock pair t0 <= t1 and every boot_offset_seconds in
\* 0..=u32::MAX read from the epoch-time characteristic, read_epoch_time
\* returns Ok(epoch_time) with epoch_time + boot_offset_seconds =
\* floor((t0 + t1) / 2); the subtraction never underflows, wraps or aborts,
\* also when boot_offset_seconds is larger than the wall-clock time.
C25_EpochTimeIsExact ==
    EpochAnswered => EpochIsExact

\* the same statement for the offsets that the wall clock has reached
C25_ExactWhenOffsetNotAhead ==
    (EpochAnswered /\ ~EpochTime(start, finish, log[3].data).overflow) => EpochIsExact

----------------------------------------------------------------------------
(* C26: short answers to the length and epoch-time reads.                   *)

\* read_historical_values got fewer than 2 bytes for the history length, or
\* fewer than 4 bytes for the epoch time
ShortHistoryAnswer ==
    /\ op = "read_historical_values"
    /\ \/ \E k \in Positions(IsHistoryRead) :
              /\ \A m \in Positions(IsRead) : k <= m
              /\ log[k].ok /\ Len(log[k].data) < 2
       \/ \E k \in Positions(IsEpochRead) : log[k].ok /\ Len(log[k].data) < 4

\* C26: when the device answers the history-length read with fewer than 2
\* bytes, or the epoch-time read with fewer than 4 bytes,
\* read_historical_values returns a typed Error to its caller rather than
\* aborting on an out-of-range index.
C26_ShortAnswersAreErrors ==
    ShortHistoryAnswer => (pc = "done" /\ IsErr(result))

\* What the code does: it indexes the short buffer and aborts.
C26_ShortAnswersAbort ==
    ShortHistoryAnswer => (pc = "aborted" /\ result = Panic)

----------------------------------------------------------------------------
(* C27: a failed is_connected() query in the retry loops.                   *)

InRetryLoop == op \in {"try_connect", "try_disconnect"}

\* C27: when is_connected() fails during try_connect or try_disconnect, on
\* the first or on any later iteration, the call returns CommandFailed at
\* once: no connect / disconnect is attempted on that iteration, the failure
\* is not counted against the retry budget and is not retried, and the error
\* is not TooManyRetries.
C27_QueryFailureIsCommandFailed ==
    (InRetryLoop /\ lastReport = "err") =>
        /\ pc = "done"
        /\ result.kind = "CommandFailed"
        /\ nQuery < CallCap =>
               /\ result.cause = nQuery
               /\ nCall = nQuery - 1
               /\ count = nCall % (U8Max + 1)

\* the query failed on the third iteration, after two failed connects
C27_Witness ==
    /\ op = "try_connect" /\ pc = "done" /\ lastReport = "err"
    /\ result = CommandFailed(3)
    /\ nQuery = 3 /\ nCall = 2 /\ count = 2

\* the query failed on the first iteration of try_disconnect
C27_WitnessFirst ==
    /\ op = "try_disconnect" /\ pc = "done" /\ firstReport = "err"
    /\ result = CommandFailed(1) /\ nCall = 0

----------------------------------------------------------------------------
(* C28: handle closes the session it opened.                                *)

HandleReturned == op = "handle" /\ Returned

\* C28: in the handle functions, every run in which try_connect succeeded
\* calls try_disconnect before handle returns, whatever the outcome of the
\* reads in between: a session that was opened is always closed.
C28_OpenedSessionIsClosed ==
    (HandleReturned /\ handle.opened) => handle.closed

\* What the code guarantees: try_disconnect was called when handle returns
\* Ok, and only after every read returned Ok.
C28_ClosedWhenAllReadsSucceeded ==
    /\ (HandleReturned /\ result.kind = "Ok") => (handle.opened /\ handle.closed)
    /\ handle.closed => handle.opened

----------------------------------------------------------------------------
(* C29: historical_entry_address (under CodecSpec)                          *)

AddressReturned == op = "historical_entry_address" /\ pc = "done"

\* the indices next to i, and those that share one of its bytes
Neighbours(index) ==
    {j \in {index - 1, index + 1, index - 256, index + 256,
            (index % 256) * 256 + index \div 256} :
        j >= 0 /\ j <= U16Max /\ j # index}

\* C29: historical_entry_address(i) returns the three bytes
\* [0xA1, i mod 256, i div 256] for every index i in 0..=65535; decoding bytes
\* 1..2 as a little-endian u16 gives back i, so distinct indices produce
\* distinct commands, and no address command equals the read-init (A0 ..) or
\* the read-success (A2 ..) command.
C29_AddressCommand ==
    AddressReturned =>
        LET cmd == result.value IN
        /\ cmd = <<161, i % 256, i \div 256>>
        /\ U16FromLE(cmd[2], cmd[3]) = i
        /\ \A j \in Neighbours(i) : historical_entry_address(j) # cmd
        /\ cmd # CMD_HISTORY_READ_INIT /\ cmd # CMD_HISTORY_READ_SUCCESS
        /\ cmd[1] \notin {CMD_HISTORY_READ_INIT[1], CMD_HISTORY_READ_SUCCESS[1]}

\* index 0x0102: the low byte comes first
C29_Witness ==
    /\ AddressReturned /\ i = 258
    /\ result.value = <<161, 2, 1>>

\* the largest index
C29_WitnessMax ==
    /\ AddressReturned /\ i = U16Max
    /\ result.value = <<161, 255, 255>>

----------------------------------------------------------------------------
(* C30: the decoding of RealtimeEntry (under CodecSpec)                     *)

RealtimeDecoded == op = "RealtimeEntry" /\ pc = "done"

\* byte n of the buffer, counted from 0 as the code counts
Byte(n) == payload[n + 1]

\* the buffer cut to its first 10 bytes, with byte 2 cleared
WithoutSlack(buffer) == [k \in 1 .. 10 |-> IF k = 3 THEN 0 ELSE buffer[k]]

\* C30: for every buffer of at least 10 bytes, RealtimeEntry decodes
\* temperature = b0 + 256*b1, brightness = b3 + 256*b4 + 65536*b5 +
\* 16777216*b6, moisture = b7, conductivity = b8 + 256*b9, independent of byte
\* 2 and of bytes 10 and beyond; temperature bytes 64 00, brightness
\* 10 00 00 00, moisture 37, conductivity 90 01 give 100, 16, 55, 400.
C30_RealtimeDecoding ==
    RealtimeDecoded =>
        LET values == result.value IN
        /\ Len(payload) >= 10
        /\ values.temperature = Byte(0) + 256 * Byte(1)
        /\ values.brightness.lo = Byte(3) + 256 * Byte(4)
        /\ values.brightness.hi = Byte(5) + 256 * Byte(6)
        /\ Byte(6) < 128 =>
               values.brightness.lo + 65536 * values.brightness.hi
                   = Byte(3) + 256 * Byte(4) + 65536 * Byte(5) + 16777216 * Byte(6)
        /\ values.moisture = Byte(7)
        /\ values.conductivity = Byte(8) + 256 * Byte(9)
        /\ values = RealtimeEntry_decode(RealtimeEntry_from(WithoutSlack(payload)))
        /\ WithoutSlack(payload) = <<100, 0, 0, 16, 0, 0, 0, 55, 144, 1>> =>
               /\ values.temperature = 100
               /\ values.brightness = [lo |-> 16, hi |-> 0]
               /\ values.moisture = 55
               /\ values.conductivity = 400

\* the example of the claim, with a byte 2 and a tail that are not zero
C30_Witness ==
    /\ RealtimeDecoded
    /\ payload = <<100, 0, 255, 16, 0, 0, 0, 55, 144, 1, 1, 2, 3, 4, 5, 6>>
    /\ result.value = [temperature |-> 100, brightness |-> [lo |-> 16, hi |-> 0],
                       moisture |-> 55, conductivity |-> 400]

\* the largest brightness, 0xFFFFFFFF
C30_WitnessMax ==
    /\ RealtimeDecoded /\ Len(payload) = 10
    /\ result.value.brightness = [lo |-> U16Max, hi |-> U16Max]

----------------------------------------------------------------------------
(* C31: the decoding of HistoricalEntry (under CodecSpec)                   *)

HistoricalDecoded == op = "HistoricalEntry" /\ pc = "done"

\* the payload cut to its first 14 bytes, with bytes 6 and 10 cleared
WithoutGaps(buffer) == [k \in 1 .. 14 |-> IF k \in {7, 11} THEN 0 ELSE buffer[k]]

\* C31: for every payload of at least 14 bytes, HistoricalEntry decodes
\* temperature = b4 + 256*b5, brightness = b7 + 256*b8 + 65536*b9 (always
\* below 2^24, independent of bytes 6 and 10), moisture = b11 and
\* conductivity = b12 + 256*b13, and none of these depends on epoch_time.
C31_HistoricalDecoding ==
    HistoricalDecoded =>
        LET values == result.value IN
        /\ Len(payload) >= 14
        /\ values.temperature = Byte(4) + 256 * Byte(5)
        /\ values.brightness.lo + 65536 * values.brightness.hi
               = Byte(7) + 256 * Byte(8) + 65536 * Byte(9)
        /\ values.brightness.lo <= U16Max /\ values.brightness.hi < 256
        /\ values.moisture = Byte(11)
        /\ values.conductivity = Byte(12) + 256 * Byte(13)
        /\ \A epoch \in EpochTimes :
               values = HistoricalEntry_decode(
                            HistoricalEntry_new(WithoutGaps(payload), epoch))

\* the largest brightness, 0xFFFFFF, with bytes 6 and 10 at 255 and the
\* largest epoch time
C31_Witness ==
    /\ HistoricalDecoded
    /\ Byte(6) = 255 /\ Byte(10) = 255
    /\ epoch_time = <<255, 255, 255, 255, 255, 255, 255, 255>>
    /\ result.value.brightness = [lo |-> U16Max, hi |-> 255]
    /\ result.value.temperature = 100 /\ result.value.moisture = 55
    /\ result.value.conductivity = 400

====
